---- MODULE Spec2Model ----
(***************************************************************************)
(* A model of the activity cache of src/activity.py: the SQLite cache      *)
(* (CacheManager), the paginated upstream endpoint, the bounded page read  *)
(* get_user_activity and the full-history sync get_all_user_activity.      *)
(*                                                                         *)
(* One owner is modelled: every cache operation filters on the same        *)
(* lowercased user_address.  A call of get_all_user_activity is cut at its *)
(* I/O boundaries: the cache read at entry, the PROBE fetch, one iteration *)
(* of the STREAM loop (a fetch and what follows it up to the next fetch),  *)
(* and the merge.  get_user_activity is one step.                          *)
(*                                                                         *)
(* Timestamps are scaled so that they fit TLC's 32-bit integers: the       *)
(* source's millisecond threshold 1e10 is MsThreshold here; second-scale   *)
(* values lie below it and millisecond-scale values above it, as they do   *)
(* for real dates.  Sizes are scaled with the upstream history, which     *)
(* holds a handful of records here: the refresh floor of 500 records is   *)
(* RefreshFloor, so that limit + offset lies on either side of it.        *)
(***************************************************************************)
EXTENDS Integers, Sequences, FiniteSets, TLC

(* ---------------------------------------------------------------- bounds *)
MaxFeed == 3          \* records the upstream history can hold
MaxCache == 2         \* rows of the cache file found at start
MaxBatch == 3         \* largest batch_size a caller passes
MaxRecordsArg == 1    \* largest max_records a caller passes
MaxLimit == 2         \* largest limit a caller of get_user_activity passes
MaxOffset == 1        \* largest offset a caller of get_user_activity passes
MaxPage == 1          \* records of one save_activities call on the table
MaxRequests == 2      \* requests to /activity/all the server receives
MaxHistory == 4       \* records of a history that does not change during a sync
MaxClock == 7         \* the supervisor is followed up to this time

(* ----------------------------------------------------- program constants *)
MsThreshold == 1000   \* 1e10 in the source (scaled, see above)
MsPerSec == 1000      \* timestamp // 1000
ApiMaxLimit == 3      \* batch_size = min(batch_size, 500); le=500 (scaled)
RefreshFloor == 2     \* cache_update_limit = max(limit + offset, 500) (scaled)
OffsetCeiling == 6    \* if offset > 10000 (scaled: above every offset of a finite history)
SqlNoLimit == 999999  \* limit_value = limit if limit else 999999
max_retries == 3      \* line 325
retry_delay == 2      \* line 326, seconds
max_restarts_per_hour == 2  \* auto_restart.py line 210: 10 (scaled)
Hour == 4             \* now - t < 3600 (scaled: 4 monitoring passes)
PollSleep == 1        \* time.sleep(30) of line 255 (the unit of time)
ThrottleSleep == 2    \* time.sleep(60) of lines 227 and 246

None == 0             \* Python's None / a falsy max_records or limit
NoTimestamp == -1     \* last_batch_min_timestamp is None

(* ------------------------------------------------------------ the inputs *)
Act(tx, cond, ts, v) ==
  [transactionHash |-> tx, conditionId |-> cond, timestamp |-> ts, payload |-> v]

\* The activity records the upstream can deliver: a transaction that touched
\* two conditions (one row key, two identity keys), an event of the same
\* second that was also delivered with a millisecond-scale timestamp of an
\* earlier second (one identity key, two payloads), and an event older than
\* every cutoff.
Activities ==
  { Act("a", "x", 3, 1), Act("a", "y", 3, 1),
    Act("b", "x", 3, 1), Act("b", "x", 2500, 1),
    Act("c", "x", 1, 1) }

\* int((datetime.now() - timedelta(days=90)).timestamp()) at the call's entry
Cutoffs == {2}

Directions == {"DESC", "ASC"}

Range(s) == {s[i] : i \in 1..Len(s)}

\* the sequences of at most n elements of S, none of them twice
RECURSIVE SeqsUpTo(_, _)
SeqsUpTo(S, n) ==
  IF n = 0 THEN {<<>>}
  ELSE LET shorter == SeqsUpTo(S, n - 1)
           longest == {t \in shorter : Len(t) = n - 1}
       IN shorter \cup {Append(p[1], p[2]) :
                          p \in {q \in longest \X S : q[2] \notin Range(q[1])}}

Min(a, b) == IF a < b THEN a ELSE b
Max(a, b) == IF a > b THEN a ELSE b

RECURSIVE Reverse(_)
Reverse(s) == IF s = <<>> THEN <<>> ELSE Append(Reverse(Tail(s)), Head(s))

(* ------------------------------------------------------------ the record *)
\* if timestamp > 1e10: timestamp = timestamp // 1000
Normalize(ts) == IF ts > MsThreshold THEN ts \div MsPerSec ELSE ts

\* key = (item.get('transactionHash', ''), item.get('conditionId', ''))
IdentityKey(a) == <<a.transactionHash, a.conditionId>>

\* UNIQUE(user_address, transaction_hash, timestamp), one user_address
RowKey(a) == <<a.transactionHash, a.timestamp>>

UniqueRows(rows) == \A r, q \in rows : RowKey(r) = RowKey(q) => r = q

(* ------------------------------------------------------------- the state *)
VARIABLES
  cache,            \* rows of user_activities of the owner: a set of activity_data
  feed,             \* the upstream history, as served for sortDirection DESC
  pc,               \* "idle", "probe", "stream", "merge", "done"
  op,               \* "none", "getAll", "getPage"
  args,             \* the arguments of the call in progress
  cached_data,      \* get_all_user_activity: the cache as read at entry
  cutoff,           \* three_months_ago_timestamp
  all_activities,   \* the streamed accumulator
  offset,           \* the next offset to fetch
  last_batch_min_timestamp,
  result,           \* the list returned
  raised,           \* the call ended in HTTPException
  fetches,          \* the upstream requests of this call, in order
  first_batch,      \* the PROBE page as fetched (<<>> if none)
  latest_data,      \* get_user_activity: the refresh batch as fetched
  fetch_failed,     \* "none", "probe", "stream", "refresh"
  stop,             \* why the STREAM loop ended ("none": never entered)
  paging,           \* the run of get_user_activity calls at consecutive offsets
  table,            \* user_activities with its owner column: rows of several owners
  last,             \* the last CacheManager operation and what it answered
  fetch_pc,         \* _fetch_user_activity_from_api: "idle", "trying", "returned", "raised"
  params,           \* its request parameters
  attempt,          \* its loop variable (from 0)
  outcomes,         \* how each session.get of the call ended, in order
  waits,            \* the time.sleep calls of the call, in order
  returned,         \* the list it returned
  handlers,         \* get_all_activity: each request's coroutine, by request
  earlier,          \* what the client keeps of the call it made before
  clock,            \* auto_restart.py: time.time()
  process,          \* backend_process, frontend_process: "running" or "exited"
  last_restart,     \* last_restart_backend, last_restart_frontend: the times recorded
  pass              \* the last monitoring pass: when, what was stopped, what it started

storeVars == <<cache, feed>>
callVars == <<pc, op, args>>
localVars == <<cached_data, cutoff, all_activities, offset, last_batch_min_timestamp>>
outVars == <<result, raised>>
histVars == <<fetches, first_batch, latest_data, fetch_failed, stop>>
syncVars == <<cache, feed, pc, op, args, cached_data, cutoff, all_activities, offset,
              last_batch_min_timestamp, result, raised, fetches, first_batch,
              latest_data, fetch_failed, stop, paging>>
tableVars == <<table, last>>
retryVars == <<fetch_pc, params, attempt, outcomes, waits, returned>>
loopVars == <<handlers>>
clientVars == <<earlier>>
monitorVars == <<clock, process, last_restart, pass>>
auxVars == <<tableVars, retryVars, loopVars, clientVars, monitorVars>>
vars == <<syncVars, auxVars>>

NoArgs ==
  [sort_direction |-> "DESC", batch_size |-> 0, max_records |-> None,
   use_cache |-> FALSE, limit |-> 0, offset |-> 0]

(* ------------------------------------------------------------ CacheStore *)
\* an upsert that deletes the row in conflict and does not write the new one
RECURSIVE save_activities_DeleteOnConflict(_, _)
save_activities_DeleteOnConflict(rows, activities) ==
  IF activities = <<>> THEN rows
  ELSE LET a == Head(activities)
           others == {r \in rows : RowKey(r) # RowKey(a)}
       IN save_activities_DeleteOnConflict(
            IF others = rows THEN rows \cup {a} ELSE others, Tail(activities))

\* a record the upstream delivered with "timestamp": null
Malformed == Act("m", "x", NoTimestamp, 1)

\* what save_activities can be handed: the upstream's records, well-formed or not
Payloads == Activities \cup {Malformed}

\* timestamp INTEGER NOT NULL: the INSERT of a record without timestamp raises,
\* and the except branch of lines 202-205 goes on with the next record
Persists(a) == a.timestamp # NoTimestamp

\* INSERT OR REPLACE of each activity in turn: a row with the same
\* (transaction_hash, timestamp) is replaced, any other activity adds a row,
\* and an activity whose INSERT raises is skipped.
RECURSIVE save_activities(_, _)
save_activities(rows, activities) ==
  IF activities = <<>> THEN rows
  ELSE LET a == Head(activities)
       IN save_activities(IF Persists(a)
                          THEN {r \in rows : RowKey(r) # RowKey(a)} \cup {a}
                          ELSE rows,
                          Tail(activities))

\* what save_activities returns: <<>> stands for None (the bare return of line
\* 176), <<n>> for saved_count = n (line 210)
saved_count(activities) ==
  IF activities = <<>> THEN <<>>
  ELSE <<Len(SelectSeq(activities, Persists))>>

\* ORDER BY timestamp <direction>: the stored (raw) timestamp orders the rows;
\* SQL leaves the order of rows with equal timestamps open, so every order of
\* them is a possible answer.
RECURSIVE OrderedRows(_, _)
OrderedRows(rows, sort_direction) ==
  IF rows = {} THEN {<<>>}
  ELSE LET firsts == {r \in rows : \A q \in rows :
                        IF sort_direction = "DESC"
                        THEN r.timestamp >= q.timestamp
                        ELSE r.timestamp <= q.timestamp}
       IN UNION {{<<r>> \o t : t \in OrderedRows(rows \ {r}, sort_direction)} :
                 r \in firsts}

\* a query that drops its OFFSET
LimitOffset_NoOffset(s, limit_value, off) ==
  SubSeq(s, 1, Min(Len(s), limit_value))

\* LIMIT ? OFFSET ?
LimitOffset(s, limit_value, off) ==
  SubSeq(s, off + 1, Min(Len(s), off + limit_value))

\* a query that ignores its limit
get_cached_activities_Unlimited(rows, limit, off, sort_direction) ==
  {LimitOffset(s, SqlNoLimit, off) : s \in OrderedRows(rows, sort_direction)}

\* the possible answers of get_cached_activities
get_cached_activities(rows, limit, off, sort_direction) ==
  LET limit_value == IF limit # None THEN limit ELSE SqlNoLimit
  IN {LimitOffset(s, limit_value, off) : s \in OrderedRows(rows, sort_direction)}

get_all_cached_activities(rows, sort_direction) ==
  get_cached_activities(rows, None, 0, sort_direction)

(* ------------------------------------------- the table and its owners *)
\* Addresses as callers write them: one address in two spellings, and another.
Users == {"0xab", "0xAB", "0xcd"}

\* str.lower()
Lower(user) == IF user = "0xAB" THEN "0xab" ELSE user

\* a save that keeps the caller's spelling
SaveOwner_Raw(user) == user

\* line 195: the user_address a row is written under
SaveOwner(user) == Lower(user)

\* lines 157, 235, 254: WHERE user_address = ? with user.lower()
QueryOwner(user) == Lower(user)

Row(user_address, a) == [user_address |-> user_address, activity |-> a]

\* the activity_data of the rows stored under one user_address
RowsOf(rows, user_address) ==
  {r.activity : r \in {q \in rows : q.user_address = user_address}}

\* save_activities(user, activities) on the whole table
SaveRows(rows, user, activities) ==
  LET owner == SaveOwner(user)
  IN {r \in rows : r.user_address # owner}
     \cup {Row(owner, a) : a \in save_activities(RowsOf(rows, owner), activities)}

\* a DELETE without its WHERE clause
ClearRows_All(rows, user) == {}

\* clear_user_cache(user): DELETE FROM user_activities WHERE user_address = ?
ClearRows(rows, user) == {r \in rows : r.user_address # QueryOwner(user)}

\* get_cached_activities(user, ...) on the whole table
QueryRows(rows, user, limit, off, sort_direction) ==
  get_cached_activities(RowsOf(rows, QueryOwner(user)), limit, off, sort_direction)

\* get_cache_stats(user): COUNT(*), MIN(timestamp), MAX(timestamp)
get_cache_stats(rows, user) ==
  LET mine == RowsOf(rows, QueryOwner(user))
      stamps == {a.timestamp : a \in mine}
  IN [total_count |-> Cardinality(mine),
      oldest_timestamp |-> IF mine = {} THEN None
                           ELSE CHOOSE t \in stamps : \A u \in stamps : t <= u,
      newest_timestamp |-> IF mine = {} THEN None
                           ELSE CHOOSE t \in stamps : \A u \in stamps : t >= u]

NoStoreOp == [op |-> "none", user |-> "0xab", page |-> <<>>, repeated |-> FALSE,
              saved_count |-> <<>>, limit |-> None, offset |-> 0,
              sort_direction |-> "DESC",
              answer |-> <<>>]

(* -------------------------------------------------- RemoteActivitySource *)
\* The page the upstream serves for (limit, offset, sortDirection).
fetch_user_activity_from_api(history, limit, off, sort_direction) ==
  LET served == IF sort_direction = "DESC" THEN history ELSE Reverse(history)
  IN SubSeq(served, off + 1, Min(Len(served), off + limit))

\* An upstream that never runs dry: it serves a full page at every offset,
\* the history repeating itself.
fetch_endless(history, limit, off, sort_direction) ==
  LET served == IF sort_direction = "DESC" THEN history ELSE Reverse(history)
  IN [i \in 1..limit |-> served[((off + i - 1) % Len(served)) + 1]]

(* ------------------------------------------------ get_all_user_activity *)
InWindow(a, three_months_ago_timestamp) ==
  Normalize(a.timestamp) >= three_months_ago_timestamp

\* PROBE: every record of the first batch that is in the window (no break)
FilterFirstBatch(batch, three_months_ago_timestamp) ==
  SelectSeq(batch, LAMBDA a : InWindow(a, three_months_ago_timestamp))

\* a STREAM loop that keeps the whole batch
FilterBatch_KeepAll(batch, three_months_ago_timestamp) == batch

\* a STREAM loop that filters as the PROBE does, without the break
FilterBatch_NoBreak(batch, three_months_ago_timestamp) ==
  FilterFirstBatch(batch, three_months_ago_timestamp)

\* STREAM: the records before the first one older than the cutoff (break)
RECURSIVE FilterBatch(_, _)
FilterBatch(batch, three_months_ago_timestamp) ==
  IF batch = <<>> THEN <<>>
  ELSE IF InWindow(Head(batch), three_months_ago_timestamp)
       THEN <<Head(batch)>> \o FilterBatch(Tail(batch), three_months_ago_timestamp)
       ELSE <<>>

\* cached_keys: the identity keys of the cached records in the window
CachedKeys(cached, three_months_ago_timestamp) ==
  {IdentityKey(cached[i]) : i \in {j \in 1..Len(cached) :
                                     InWindow(cached[j], three_months_ago_timestamp)}}

FirstBatchInCache(filtered_first_batch, cached, three_months_ago_timestamp) ==
  \A i \in 1..Len(filtered_first_batch) :
    IdentityKey(filtered_first_batch[i]) \in CachedKeys(cached, three_months_ago_timestamp)

\* a loop without the order-inversion test
TimeInversion_Never(filtered_batch, last_min) == FALSE

\* the order-inversion test on a filtered batch
TimeInversion(filtered_batch, last_min) ==
  /\ last_min # NoTimestamp
  /\ Len(filtered_batch) > 0
  /\ Normalize(filtered_batch[1].timestamp) > last_min

\* seen_in_batch / unique_filtered_batch: the first record of each key is kept
RECURSIVE UniqueBy(_, _)
UniqueBy(s, seen) ==
  IF s = <<>> THEN <<>>
  ELSE IF IdentityKey(Head(s)) \in seen
       THEN UniqueBy(Tail(s), seen)
       ELSE <<Head(s)>> \o UniqueBy(Tail(s), seen \cup {IdentityKey(Head(s))})

UniqueFilteredBatch(filtered_batch) == UniqueBy(filtered_batch, {})

\* current_batch_min_timestamp
BatchMinTimestamp(batch) ==
  CHOOSE m \in {Normalize(batch[i].timestamp) : i \in 1..Len(batch)} :
    \A i \in 1..Len(batch) : m <= Normalize(batch[i].timestamp)

\* a merge that lets the cached records claim their keys first
MergeUnsorted_CacheFirst(streamed, cached, three_months_ago_timestamp) ==
  LET kept == UniqueBy(SelectSeq(cached,
                LAMBDA a : InWindow(a, three_months_ago_timestamp)), {})
      seen == {IdentityKey(kept[i]) : i \in 1..Len(kept)}
  IN kept \o UniqueBy(streamed, seen)

\* merged_data before the sort: the streamed records first, then the cached
\* records of the window whose key was not seen
MergeUnsorted(streamed, cached, three_months_ago_timestamp) ==
  LET api == UniqueBy(streamed, {})
      seen == {IdentityKey(api[i]) : i \in 1..Len(api)}
      kept == SelectSeq(cached, LAMBDA a : InWindow(a, three_months_ago_timestamp))
  IN api \o UniqueBy(kept, seen)

\* list.sort(key=lambda x: x.get('timestamp', 0), reverse=...): stable, on the
\* raw timestamp; with reverse the records of equal key keep their order too
RECURSIVE InsertSorted(_, _, _)
InsertSorted(sorted, a, sort_direction) ==
  IF sorted = <<>> THEN <<a>>
  ELSE LET h == Head(sorted)
           before == IF sort_direction = "DESC" THEN h.timestamp >= a.timestamp
                     ELSE h.timestamp <= a.timestamp
       IN IF before THEN <<h>> \o InsertSorted(Tail(sorted), a, sort_direction)
          ELSE <<a>> \o sorted

RECURSIVE SortByTimestamp(_, _)
SortByTimestamp(s, sort_direction) ==
  IF s = <<>> THEN <<>>
  ELSE InsertSorted(SortByTimestamp(SubSeq(s, 1, Len(s) - 1), sort_direction),
                    s[Len(s)], sort_direction)

\* merged_data[:max_records]
Truncate(s, max_records) ==
  IF max_records # None THEN SubSeq(s, 1, Min(Len(s), max_records)) ELSE s

\* How one session.get(...) with raise_for_status() and json() can end.  The
\* adapter mounted at lines 307-317 repeats a request on its own; an outcome
\* is what comes out of session.get after that: the page, a connection
\* failure, a timeout, a 429/5xx answer the adapter gave up on, or another
\* 4xx answer.
Outcomes == {"ok", "connection", "timeout", "status", "client"}

\* the exception class a failed attempt raises, as the except clauses of
\* lines 383, 395 and 407 tell them apart
ExceptionOf(outcome) ==
  CASE outcome = "connection" -> "ConnectionError"
    [] outcome = "timeout" -> "Timeout"
    [] outcome = "status" -> "RequestException"
    [] outcome = "client" -> "RequestException"

\* a loop that retries whatever was raised
Retried_Any(exception) == TRUE

\* lines 383-406: the branches that wait and go on; line 407 raises at once
Retried(exception) == exception \in {"ConnectionError", "Timeout"}

\* a wait that does not grow
WaitTime_Constant(n) == retry_delay

\* wait_time = retry_delay * (attempt + 1)
WaitTime(n) == retry_delay * (n + 1)

NoParams == [limit |-> 0, offset |-> 0, sort_direction |-> "DESC"]

NoFetch ==
  /\ fetch_pc = "idle" /\ params = NoParams /\ attempt = 0
  /\ outcomes = <<>> /\ waits = <<>> /\ returned = <<>>

(* ------------------------------------------------------ the event loop *)
Requests == 1..MaxRequests

(* ------------------------------------------------------ auto_restart.py *)
Services == {"backend", "frontend"}

NoPass == [at |-> -1, stopped |-> {}, started |-> {}]

\* the supervisor is not running
MonitorOff ==
  /\ clock = 0
  /\ process = [s \in Services |-> "running"]
  /\ last_restart = [s \in Services |-> <<>>]
  /\ pass = NoPass

\* lines 217 and 236: process is None or process.poll() is not None
Stopped(p) == p # "running"

\* lines 220-223: recent_restarts = [t for t in ... if now - t < 3600]
recent_restarts(times, now) == {i \in 1..Len(times) : now - times[i] < Hour}

\* a throttle that lets one more restart through
TooFrequent_OneMore(times, now) ==
  Cardinality(recent_restarts(times, now)) > max_restarts_per_hour

\* line 225: len(recent_restarts) >= max_restarts_per_hour
TooFrequent(times, now) ==
  Cardinality(recent_restarts(times, now)) >= max_restarts_per_hour

\* the client has made no call yet
NoCall == [op |-> "none", args |-> NoArgs, fresh |-> FALSE, failed |-> FALSE,
           result |-> <<>>]

\* no request has reached the server
NoHandlers == [id \in Requests |-> "none"]

Running(hs) == {id \in Requests : hs[id] = "running"}

\* a server that starts a handler for every request at once, as a pool of
\* worker threads does for a handler declared with def
LoopFree_Always(hs) == TRUE

\* lines 972 and 1006, 1119-1124: get_all_activity is a coroutine of the one
\* event loop of the one server process, and it calls get_all_user_activity
\* without awaiting anything: the loop starts the next coroutine when the
\* running one has returned
LoopFree(hs) == Running(hs) = {}

(* ------------------------------------------------------------ the start *)
\* The cache file persists between runs of the service: at start it holds any
\* rows the table's UNIQUE constraint allows.
InitialCaches ==
  {rows \in SUBSET Activities : UniqueRows(rows) /\ Cardinality(rows) <= MaxCache}

NoPaging == [limit |-> 0, sort_direction |-> "DESC", pages |-> <<>>, base |-> {},
             stable |-> TRUE]

Idle ==
  /\ pc = "idle" /\ op = "none" /\ args = NoArgs
  /\ cached_data = <<>> /\ cutoff = 0 /\ all_activities = <<>> /\ offset = 0
  /\ last_batch_min_timestamp = NoTimestamp
  /\ result = <<>> /\ raised = FALSE
  /\ fetches = <<>> /\ first_batch = <<>> /\ latest_data = <<>>
  /\ fetch_failed = "none" /\ stop = "none"

Init ==
  /\ cache \in InitialCaches
  /\ feed \in SeqsUpTo(Activities, MaxFeed)
  /\ Idle
  /\ paging = NoPaging
  /\ table = {} /\ last = NoStoreOp
  /\ NoFetch
  /\ handlers = NoHandlers /\ earlier = NoCall
  /\ MonitorOff

(* ------------------------------------------------------------- upstream *)
\* The feed is append-only at its head: the service gains a record, between
\* two calls or between two page fetches of one call.
UpstreamAppend(a) ==
  /\ pc \in {"idle", "stream"}
  /\ Len(feed) < MaxFeed
  /\ a \notin Range(feed)
  /\ feed' = <<a>> \o feed
  /\ UNCHANGED <<cache, callVars, localVars, outVars, histVars, paging, auxVars>>

(* ------------------------------------------------ get_all_user_activity *)
\* lines 528-544 and the branch of line 546 / 609: INIT
GetAllStart(sort_direction, batch_size, max_records, use_cache) ==
  /\ pc = "idle"
  /\ op' = "getAll"
  /\ args' = [sort_direction |-> sort_direction,
              batch_size |-> Min(batch_size, ApiMaxLimit),
              max_records |-> max_records, use_cache |-> use_cache,
              limit |-> 0, offset |-> 0]
  /\ cached_data' \in get_all_cached_activities(cache, sort_direction)
  /\ cutoff' \in Cutoffs
  /\ all_activities' = <<>>
  /\ offset' = 0
  /\ last_batch_min_timestamp' = NoTimestamp
  /\ pc' = IF cached_data' # <<>> THEN "probe" ELSE "stream"
  /\ stop' = IF cached_data' # <<>> THEN "none" ELSE "running"
  /\ UNCHANGED auxVars
  /\ UNCHANGED <<storeVars, outVars, fetches, first_batch, latest_data,
                 fetch_failed, paging>>

\* an offset that moves on by one record
NextOffset_ByOne(off, batch_size) == off + 1

\* lines 598 and 738: offset += batch_size
NextOffset(off, batch_size) == off + batch_size

\* a PROBE that streams whenever the first batch has records in the window
ProbeCarries_Always(filtered_first_batch, cached, three_months_ago_timestamp) ==
  filtered_first_batch # <<>>

\* lines 583-599: the first batch is carried forward unless all its keys are cached
ProbeCarries(filtered_first_batch, cached, three_months_ago_timestamp) ==
  /\ filtered_first_batch # <<>>
  /\ ~FirstBatchInCache(filtered_first_batch, cached, three_months_ago_timestamp)

\* lines 546-608 and 621-624: PROBE
Probe ==
  /\ pc = "probe"
  /\ \E ok \in BOOLEAN :
       LET batch == IF ok THEN fetch_user_activity_from_api(
                                 feed, args.batch_size, 0, args.sort_direction)
                   ELSE <<>>
           filtered_first_batch == FilterFirstBatch(batch, cutoff)
           carry == ok /\ ProbeCarries(filtered_first_batch, cached_data, cutoff)
       IN /\ fetches' = Append(fetches, [limit |-> args.batch_size, offset |-> 0])
          /\ first_batch' = batch
          /\ fetch_failed' = IF ok THEN "none" ELSE "probe"
          /\ all_activities' = IF carry THEN filtered_first_batch ELSE <<>>
          /\ offset' = IF carry THEN NextOffset(offset, args.batch_size) ELSE offset
          /\ pc' = IF carry THEN "stream" ELSE "merge"
          /\ stop' = IF carry THEN "running" ELSE "none"
  /\ UNCHANGED auxVars
  /\ UNCHANGED <<storeVars, op, args, cached_data, cutoff, last_batch_min_timestamp,
                 outVars, latest_data, paging>>

\* a ceiling that lets one more round of pages through
OffsetAboveCeiling_Late(off) == off > OffsetCeiling + ApiMaxLimit

\* line 741: if offset > 10000
OffsetAboveCeiling(off) == off > OffsetCeiling

\* lines 640-743: the STREAM loop's work on the page it fetched
StreamPage(batch) ==
  LET filtered_batch == FilterBatch(batch, cutoff)
      unique_filtered_batch == UniqueFilteredBatch(filtered_batch)
      appended == all_activities \o unique_filtered_batch
      early == IF batch = <<>> THEN "empty"
               ELSE IF filtered_batch = <<>> THEN "window"
               ELSE IF TimeInversion(filtered_batch, last_batch_min_timestamp)
                    THEN "inversion"
               ELSE "none"
      late == IF Len(filtered_batch) < Len(batch) THEN "final"
              ELSE IF args.max_records # None
                      /\ Len(appended) >= args.max_records THEN "max"
              ELSE IF OffsetAboveCeiling(NextOffset(offset, args.batch_size)) THEN "ceiling"
              ELSE "running"
  IN /\ UNCHANGED <<raised, result, fetch_failed>>
     /\ IF early # "none"
        THEN /\ stop' = early /\ pc' = "merge"
             /\ UNCHANGED <<cache, all_activities, offset,
                            last_batch_min_timestamp>>
        ELSE /\ last_batch_min_timestamp' = BatchMinTimestamp(unique_filtered_batch)
             /\ all_activities' = IF late = "max"
                                  THEN SubSeq(appended, 1, args.max_records)
                                  ELSE appended
             /\ cache' = IF args.use_cache
                         THEN save_activities(cache, unique_filtered_batch)
                         ELSE cache
             /\ offset' = IF late \in {"final", "max"} THEN offset
                          ELSE NextOffset(offset, args.batch_size)
             /\ stop' = late
             /\ pc' = IF late = "running" THEN "stream" ELSE "merge"

\* lines 744-755: except HTTPException: raise
StreamRaise ==
  /\ pc' = "done" /\ raised' = TRUE /\ result' = <<>>
  /\ fetch_failed' = "stream" /\ stop' = "error"
  /\ UNCHANGED <<cache, all_activities, offset, last_batch_min_timestamp>>

\* lines 626-755: one iteration of the STREAM loop
StreamStep ==
  /\ pc = "stream"
  /\ fetches' = Append(fetches, [limit |-> args.batch_size, offset |-> offset])
  /\ \E ok \in BOOLEAN :
       IF ~ok
       THEN StreamRaise
       ELSE StreamPage(fetch_user_activity_from_api(
                         feed, args.batch_size, offset, args.sort_direction))
  /\ UNCHANGED <<feed, op, args, cached_data, cutoff, first_batch, latest_data, paging,
                 auxVars>>

\* the same iteration against the upstream that never runs dry
StreamStepEndless ==
  /\ pc = "stream"
  /\ feed # <<>>
  /\ fetches' = Append(fetches, [limit |-> args.batch_size, offset |-> offset])
  /\ StreamPage(fetch_endless(feed, args.batch_size, offset, args.sort_direction))
  /\ UNCHANGED <<feed, op, args, cached_data, cutoff, first_batch, latest_data, paging,
                 auxVars>>

\* lines 759-837: MERGE.  The clock is read a second time (line 765).
Merge ==
  /\ pc = "merge"
  /\ IF cached_data # <<>>
     THEN /\ \E second_cutoff \in {cutoff, cutoff + 1} :
               result' = Truncate(
                           SortByTimestamp(
                             MergeUnsorted(all_activities, cached_data, second_cutoff),
                             args.sort_direction),
                           args.max_records)
          /\ cache' = IF all_activities # <<>>
                      THEN save_activities(cache, all_activities)
                      ELSE cache
     ELSE /\ result' = all_activities
          /\ cache' = cache
  /\ pc' = "done"
  /\ UNCHANGED <<feed, op, args, localVars, raised, histVars, paging, auxVars>>

(* ---------------------------------------------------- get_user_activity *)
\* a refresh of just the rows asked for
CacheUpdateLimit_NoFloor(limit, off) == limit + off

\* a refresh with a lower floor
CacheUpdateLimit_LowFloor(limit, off) == Max(limit + off, RefreshFloor - 1)

\* cache_update_limit
CacheUpdateLimit(limit, off) == Max(limit + off, RefreshFloor)

\* a failed refresh that is raised whatever the cache holds
Fallback_AlwaysRaise(cached) == [result |-> <<>>, raised |-> TRUE]

\* lines 482-501: the except branch, given the cached range
Fallback(cached) == [result |-> cached, raised |-> (cached = <<>>)]

\* a call that takes the cache path whatever the flag says
UsesCache_Always(use_cache) == TRUE

\* line 442: if not use_cache, the call goes straight to the upstream
UsesCache(use_cache) == use_cache

\* lines 418-501, one call
GetPageCall(limit, off, sort_direction, use_cache) ==
  /\ pc = "idle"
  /\ op' = "getPage"
  /\ pc' = "done"
  /\ args' = [sort_direction |-> sort_direction, batch_size |-> 0,
              max_records |-> None, use_cache |-> use_cache,
              limit |-> limit, offset |-> off]
  /\ \E ok \in BOOLEAN :
       IF ~UsesCache(use_cache)
       THEN /\ fetches' = <<[limit |-> limit, offset |-> off]>>
            /\ latest_data' = <<>>
            /\ cache' = cache
            /\ fetch_failed' = IF ok THEN "none" ELSE "refresh"
            /\ raised' = ~ok
            /\ result' = IF ok THEN fetch_user_activity_from_api(
                                      feed, limit, off, sort_direction)
                         ELSE <<>>
       ELSE /\ fetches' = <<[limit |-> CacheUpdateLimit(limit, off), offset |-> 0]>>
            /\ IF ok
               THEN /\ latest_data' = fetch_user_activity_from_api(
                                        feed, CacheUpdateLimit(limit, off), 0,
                                        sort_direction)
                    /\ cache' = save_activities(cache, latest_data')
                    /\ result' \in get_cached_activities(cache', limit, off,
                                                         sort_direction)
                    /\ raised' = FALSE
                    /\ fetch_failed' = "none"
               ELSE /\ latest_data' = <<>>
                    /\ cache' = cache
                    /\ fetch_failed' = "refresh"
                    /\ \E cached \in get_cached_activities(cache, limit, off,
                                                           sort_direction) :
                         /\ result' = Fallback(cached).result
                         /\ raised' = Fallback(cached).raised
  /\ UNCHANGED <<feed, localVars, first_batch, stop, auxVars>>

\* A caller pages through the cache: a call at offset 0 starts a run, a call
\* with the run's limit and direction at the next offset continues it.
ContinuesRun(limit, off, sort_direction) ==
  /\ paging.pages # <<>>
  /\ limit = paging.limit /\ sort_direction = paging.sort_direction
  /\ off = Len(paging.pages) * limit

\* What the caller has been given: the pages of the run; base is the cache as
\* the first call of the run left it, stable whether every later call of the
\* run left it the same.  A call that raises ends the run.
PagingAfter(limit, off, sort_direction, page, failed, rows) ==
  IF failed THEN NoPaging
  ELSE IF off = 0
  THEN [limit |-> limit, sort_direction |-> sort_direction, pages |-> <<page>>,
        base |-> rows, stable |-> TRUE]
  ELSE [paging EXCEPT !.pages = Append(@, page),
                      !.stable = @ /\ rows = paging.base]

GetPage(limit, off, sort_direction, use_cache) ==
  /\ GetPageCall(limit, off, sort_direction, use_cache)
  /\ UNCHANGED paging

\* a use_cache call made by a caller who pages through the cache
GetPagePaging(limit, off, sort_direction) ==
  /\ off = 0 \/ ContinuesRun(limit, off, sort_direction)
  /\ GetPageCall(limit, off, sort_direction, TRUE)
  /\ paging' = PagingAfter(limit, off, sort_direction, result', raised', cache')

\* lines 884-947: GET /activity.  Query(...) admits limit in -1..500 and offset
\* in 0..10000; limit 0 or -1 asks for the whole history, limit >= 1 for a page.
GetActivity(limit, off, sort_direction, use_cache) ==
  IF limit = 0 \/ limit = -1
  THEN GetAllStart(sort_direction, ApiMaxLimit, None, use_cache)
  ELSE GetPage(limit, off, sort_direction, use_cache)

\* the caller takes the answer; the next request can start
Return ==
  /\ pc = "done"
  /\ pc' = "idle" /\ op' = "none" /\ args' = NoArgs
  /\ cached_data' = <<>> /\ cutoff' = 0 /\ all_activities' = <<>> /\ offset' = 0
  /\ last_batch_min_timestamp' = NoTimestamp
  /\ result' = <<>> /\ raised' = FALSE
  /\ fetches' = <<>> /\ first_batch' = <<>> /\ latest_data' = <<>>
  /\ fetch_failed' = "none" /\ stop' = "none"
  /\ UNCHANGED <<storeVars, paging, auxVars>>

\* the same, for a client that keeps the answer to compare the next with:
\* the call, whether its cached set was empty, whether a fetch of it failed
ReturnKept ==
  /\ pc = "done"
  /\ earlier' = [op |-> op, args |-> args, fresh |-> cached_data = <<>>,
                 failed |-> raised \/ fetch_failed # "none", result |-> result]
  /\ pc' = "idle" /\ op' = "none" /\ args' = NoArgs
  /\ cached_data' = <<>> /\ cutoff' = 0 /\ all_activities' = <<>> /\ offset' = 0
  /\ last_batch_min_timestamp' = NoTimestamp
  /\ result' = <<>> /\ raised' = FALSE
  /\ fetches' = <<>> /\ first_batch' = <<>> /\ latest_data' = <<>>
  /\ fetch_failed' = "none" /\ stop' = "none"
  /\ UNCHANGED <<storeVars, paging, tableVars, retryVars, loopVars, monitorVars>>

(* ------------------------------------------------- GET /activity/all *)
\* a client sends a request for the owner; the socket holds it
Receive(id) ==
  /\ handlers[id] = "none"
  /\ handlers' = [handlers EXCEPT ![id] = "received"]
  /\ UNCHANGED <<syncVars, tableVars, retryVars, clientVars, monitorVars>>

\* line 972: the event loop starts the coroutine of a request
Dispatch(id) ==
  /\ handlers[id] = "received"
  /\ LoopFree(handlers)
  /\ handlers' = [handlers EXCEPT ![id] = "running"]
  /\ UNCHANGED <<syncVars, tableVars, retryVars, clientVars, monitorVars>>

\* lines 1006-1014: the running coroutine calls get_all_user_activity
HandlerCall(sort_direction, batch_size, max_records, use_cache) ==
  /\ Running(handlers) # {}
  /\ GetAllStart(sort_direction, batch_size, max_records, use_cache)

\* lines 1016-1029: the coroutine answers, with the records or with status 500
Respond(id) ==
  /\ handlers[id] = "running"
  /\ pc = "done"
  /\ handlers' = [handlers EXCEPT ![id] = "finished"]
  /\ pc' = "idle" /\ op' = "none" /\ args' = NoArgs
  /\ cached_data' = <<>> /\ cutoff' = 0 /\ all_activities' = <<>> /\ offset' = 0
  /\ last_batch_min_timestamp' = NoTimestamp
  /\ result' = <<>> /\ raised' = FALSE
  /\ fetches' = <<>> /\ first_batch' = <<>> /\ latest_data' = <<>>
  /\ fetch_failed' = "none" /\ stop' = "none"
  /\ UNCHANGED <<storeVars, paging, tableVars, retryVars, clientVars, monitorVars>>

(* ---------------------------------------- auto_restart.monitor_services *)
\* a service's process exits
Crash(s) ==
  /\ process[s] = "running"
  /\ process' = [process EXCEPT ![s] = "exited"]
  /\ UNCHANGED <<clock, last_restart, pass>>
  /\ UNCHANGED <<syncVars, tableVars, retryVars, loopVars, clientVars>>

\* lines 214-255: one pass of the while loop.  A throttled backend ends the
\* pass (continue, line 228) before the frontend is looked at; a start can
\* fail (start_backend / start_frontend return None).
MonitorPass ==
  \E backend_started, frontend_started \in {"running", "exited"} :
    LET backend_stopped == Stopped(process["backend"])
        backend_throttled ==
          backend_stopped /\ TooFrequent(last_restart["backend"], clock)
        backend_restart == backend_stopped /\ ~backend_throttled
        frontend_checked == ~backend_throttled
        frontend_stopped == Stopped(process["frontend"])
        frontend_throttled ==
          /\ frontend_checked /\ frontend_stopped
          /\ TooFrequent(last_restart["frontend"], clock)
        frontend_restart ==
          frontend_checked /\ frontend_stopped /\ ~frontend_throttled
        sleep == IF backend_throttled \/ frontend_throttled
                 THEN ThrottleSleep ELSE PollSleep
    IN /\ clock + sleep <= MaxClock
       /\ clock' = clock + sleep
       /\ process' =
            [s \in Services |->
               IF s = "backend" /\ backend_restart THEN backend_started
               ELSE IF s = "frontend" /\ frontend_restart THEN frontend_started
               ELSE process[s]]
       /\ last_restart' =
            [s \in Services |->
               IF \/ s = "backend" /\ backend_restart
                  \/ s = "frontend" /\ frontend_restart
               THEN Append(last_restart[s], clock)
               ELSE last_restart[s]]
       /\ pass' = [at |-> clock,
                   stopped |-> {s \in Services : Stopped(process[s])},
                   started |-> {s \in Services :
                                  \/ s = "backend" /\ backend_restart
                                  \/ s = "frontend" /\ frontend_restart}]
       /\ UNCHANGED <<syncVars, tableVars, retryVars, loopVars, clientVars>>

(* ---------------------------------------------- CacheManager, by owner *)
\* save_activities(user, activities), lines 173-210
Save(user, activities) ==
  /\ table' = SaveRows(table, user, activities)
  /\ last' = [op |-> "save", user |-> user, page |-> activities,
              repeated |-> (last.op = "save" /\ last.user = user
                            /\ last.page = activities),
              saved_count |-> saved_count(activities),
              limit |-> None, offset |-> 0, sort_direction |-> "DESC",
              answer |-> <<>>]
  /\ UNCHANGED <<syncVars, retryVars, loopVars, clientVars, monitorVars>>

\* get_cached_activities(user, limit, offset, sort_direction), lines 129-171
Query(user, limit, off, sort_direction) ==
  /\ \E answer \in QueryRows(table, user, limit, off, sort_direction) :
       last' = [op |-> "query", user |-> user, page |-> <<>>, repeated |-> FALSE,
                saved_count |-> <<>>,
                limit |-> limit, offset |-> off, sort_direction |-> sort_direction,
                answer |-> answer]
  /\ UNCHANGED <<table, syncVars, retryVars, loopVars, clientVars, monitorVars>>

\* clear_user_cache(user), lines 227-238
Clear(user) ==
  /\ table' = ClearRows(table, user)
  /\ last' = [op |-> "clear", user |-> user, page |-> <<>>, repeated |-> FALSE,
              saved_count |-> <<>>, limit |-> None, offset |-> 0,
              sort_direction |-> "DESC",
              answer |-> <<>>]
  /\ UNCHANGED <<syncVars, retryVars, loopVars, clientVars, monitorVars>>

(* ---------------------------------------- _fetch_user_activity_from_api *)
\* lines 297-328: the call builds its request and enters the loop
FetchStart(limit, off, sort_direction) ==
  /\ fetch_pc = "idle"
  /\ fetch_pc' = "trying"
  /\ params' = [limit |-> limit, offset |-> off, sort_direction |-> sort_direction]
  /\ attempt' = 0 /\ outcomes' = <<>> /\ waits' = <<>> /\ returned' = <<>>
  /\ UNCHANGED <<syncVars, tableVars, loopVars, clientVars, monitorVars>>

\* lines 328-415: one iteration of for attempt in range(max_retries)
FetchAttempt(outcome) ==
  /\ fetch_pc = "trying"
  /\ attempt < max_retries
  /\ outcomes' = Append(outcomes, outcome)
  /\ IF outcome = "ok"
     THEN /\ fetch_pc' = "returned"
          /\ returned' = fetch_user_activity_from_api(
                           feed, params.limit, params.offset, params.sort_direction)
          /\ UNCHANGED <<attempt, waits>>
     ELSE IF Retried(ExceptionOf(outcome)) /\ attempt < max_retries - 1
     THEN /\ waits' = Append(waits, WaitTime(attempt))
          /\ attempt' = attempt + 1
          /\ UNCHANGED <<fetch_pc, returned>>
     ELSE /\ fetch_pc' = "raised"
          /\ UNCHANGED <<attempt, waits, returned>>
  /\ UNCHANGED <<params, syncVars, tableVars, loopVars, clientVars, monitorVars>>

\* the caller has the page or the HTTPException
FetchEnd ==
  /\ fetch_pc \in {"returned", "raised"}
  /\ fetch_pc' = "idle" /\ params' = NoParams /\ attempt' = 0
  /\ outcomes' = <<>> /\ waits' = <<>> /\ returned' = <<>>
  /\ UNCHANGED <<syncVars, tableVars, loopVars, clientVars, monitorVars>>

Next ==
  \/ \E a \in Activities : UpstreamAppend(a)
  \/ \E sd \in Directions, bs \in 1..MaxBatch, mr \in {None} \cup 1..MaxRecordsArg,
        uc \in BOOLEAN : GetAllStart(sd, bs, mr, uc)
  \/ Probe
  \/ StreamStep
  \/ Merge
  \/ Return

\* the full-history sync against a changing upstream
Spec == Init /\ [][Next]_vars

NextPage ==
  \/ \E a \in Activities : UpstreamAppend(a)
  \/ \E l \in 1..MaxLimit, o \in 0..MaxOffset, sd \in Directions, uc \in BOOLEAN :
        GetPage(l, o, sd, uc)
  \/ Return

\* the bounded page read against a changing upstream
SpecPage == Init /\ [][NextPage]_vars

NextPaging ==
  \/ \E a \in Activities : UpstreamAppend(a)
  \/ \E l \in 1..MaxLimit, o \in 0..MaxOffset, sd \in Directions :
        GetPagePaging(l, o, sd)
  \/ Return

\* a caller paging through the cache, against a changing upstream
SpecPaging == Init /\ [][NextPaging]_vars

NextActivity ==
  \/ \E a \in Activities : UpstreamAppend(a)
  \/ \E l \in -1..ApiMaxLimit, o \in 0..MaxOffset, sd \in Directions, uc \in BOOLEAN :
        GetActivity(l, o, sd, uc)
  \/ Probe
  \/ StreamStep
  \/ Merge
  \/ Return

\* the requests the endpoint /activity admits, against a changing upstream
SpecActivity == Init /\ [][NextActivity]_vars

\* a database file that does not exist yet: CREATE TABLE IF NOT EXISTS
InitStore ==
  /\ cache = {} /\ feed = <<>>
  /\ Idle
  /\ paging = NoPaging
  /\ table = {} /\ last = NoStoreOp
  /\ NoFetch
  /\ handlers = NoHandlers /\ earlier = NoCall
  /\ MonitorOff

NextStore ==
  \/ \E user \in Users, activities \in SeqsUpTo(Payloads, MaxPage) :
        Save(user, activities)
  \/ \E user \in Users, sd \in Directions : Query(user, None, 0, sd)
  \/ \E user \in Users : Clear(user)

\* the operations of CacheManager on the table, for several owners
SpecStore == InitStore /\ [][NextStore]_vars

\* a database file that does not exist yet, and a history of two full pages
InitStream ==
  /\ cache = {} /\ feed \in SeqsUpTo(Activities, MaxHistory)
  /\ Idle
  /\ paging = NoPaging
  /\ table = {} /\ last = NoStoreOp
  /\ NoFetch
  /\ handlers = NoHandlers /\ earlier = NoCall
  /\ MonitorOff

NextStream ==
  \/ \E sd \in Directions, bs \in 1..MaxBatch, mr \in {None} \cup 1..MaxRecordsArg,
        uc \in BOOLEAN : GetAllStart(sd, bs, mr, uc)
  \/ Probe
  \/ StreamStep
  \/ Merge
  \/ Return

\* the full-history sync against a history that stays as it is
SpecStream == InitStream /\ [][NextStream]_vars

\* a database file that does not exist yet and a history that stays as it is
InitPolling ==
  /\ cache = {} /\ feed \in SeqsUpTo(Activities, MaxFeed)
  /\ Idle
  /\ paging = NoPaging
  /\ table = {} /\ last = NoStoreOp
  /\ NoFetch
  /\ handlers = NoHandlers /\ earlier = NoCall
  /\ MonitorOff

NextPolling ==
  \/ \E l \in 1..MaxLimit, o \in 0..MaxOffset, sd \in Directions :
        GetPage(l, o, sd, TRUE)
  \/ \E sd \in Directions, bs \in 1..MaxBatch, mr \in {None} \cup 1..MaxRecordsArg :
        GetAllStart(sd, bs, mr, TRUE)
  \/ Probe
  \/ StreamStep
  \/ Merge
  \/ Return

\* a client that polls one account with use_cache, pages and full syncs
SpecPolling == InitPolling /\ [][NextPolling]_vars

NextRepeat ==
  \/ \E sd \in Directions, bs \in 1..MaxBatch, mr \in {None} \cup 1..MaxRecordsArg :
        GetAllStart(sd, bs, mr, TRUE)
  \/ Probe
  \/ StreamStep
  \/ Merge
  \/ ReturnKept

\* a client that repeats the full sync with use_cache and compares the answers
SpecRepeat == InitPolling /\ [][NextRepeat]_vars

\* lines 428-432: main starts both services, each start can fail, and enters
\* monitor_services
InitMonitor ==
  /\ cache = {} /\ feed = <<>>
  /\ Idle
  /\ paging = NoPaging
  /\ table = {} /\ last = NoStoreOp
  /\ NoFetch
  /\ handlers = NoHandlers /\ earlier = NoCall
  /\ clock = 0
  /\ process \in [Services -> {"running", "exited"}]
  /\ last_restart = [s \in Services |-> <<>>]
  /\ pass = NoPass

NextMonitor ==
  \/ \E s \in Services : Crash(s)
  \/ MonitorPass

\* the supervisor and the two services it watches
SpecMonitor == InitMonitor /\ [][NextMonitor]_vars

\* the records of the endless upstream: one in the window, one older than it
EndlessHistory == {a \in Activities : a.transactionHash \in {"a", "c"} /\ a.conditionId = "x"}

\* an empty or a one-row cache, and an upstream that may serve a full page at
\* every offset
InitEndless ==
  /\ cache \in {rows \in SUBSET EndlessHistory : Cardinality(rows) <= 1}
  /\ feed \in SeqsUpTo(EndlessHistory, MaxFeed)
  /\ Idle
  /\ paging = NoPaging
  /\ table = {} /\ last = NoStoreOp
  /\ NoFetch
  /\ handlers = NoHandlers /\ earlier = NoCall
  /\ MonitorOff

NextEndless ==
  \/ \E sd \in Directions, bs \in 1..MaxBatch, mr \in {None} \cup 1..MaxRecordsArg,
        uc \in BOOLEAN : GetAllStart(sd, bs, mr, uc)
  \/ Probe
  \/ StreamStep
  \/ StreamStepEndless
  \/ Merge
  \/ Return

\* the statements of get_all_user_activity follow each other: a call that has
\* started takes its next step
SpecEndless ==
  /\ InitEndless /\ [][NextEndless]_vars
  /\ WF_vars(Probe) /\ WF_vars(StreamStep \/ StreamStepEndless) /\ WF_vars(Merge)

\* The cache file persists between runs of the service: at start the table
\* holds, for each owner, any rows its UNIQUE constraint allows.
InitialTables ==
  {{Row("0xab", a) : a \in mine} \cup {Row("0xcd", a) : a \in theirs} :
     mine \in InitialCaches, theirs \in InitialCaches}

InitQuery ==
  /\ cache = {} /\ feed = <<>>
  /\ Idle
  /\ paging = NoPaging
  /\ table \in InitialTables /\ last = NoStoreOp
  /\ NoFetch
  /\ handlers = NoHandlers /\ earlier = NoCall
  /\ MonitorOff

NextQuery ==
  \E user \in Users, l \in {None} \cup 1..MaxLimit, o \in 0..MaxOffset,
     sd \in Directions : Query(user, l, o, sd)

\* the paginated read of the table, for every limit and offset
SpecQuery == InitQuery /\ [][NextQuery]_vars

InitFetch ==
  /\ cache = {} /\ feed \in SeqsUpTo(Activities, MaxFeed)
  /\ Idle
  /\ paging = NoPaging
  /\ table = {} /\ last = NoStoreOp
  /\ NoFetch
  /\ handlers = NoHandlers /\ earlier = NoCall
  /\ MonitorOff

NextFetch ==
  \/ \E l \in 1..MaxLimit, o \in 0..MaxOffset, sd \in Directions : FetchStart(l, o, sd)
  \/ \E outcome \in Outcomes : FetchAttempt(outcome)
  \/ FetchEnd

\* one upstream request with its retries
SpecFetch == InitFetch /\ [][NextFetch]_vars

\* the upstream history of the owner the requests are for
LoopHistory == {a \in Activities : a.transactionHash \in {"a", "c"}}

\* a database file that does not exist yet, as InitStore
InitLoop ==
  /\ cache = {} /\ feed \in SeqsUpTo(LoopHistory, MaxFeed)
  /\ Idle
  /\ paging = NoPaging
  /\ table = {} /\ last = NoStoreOp
  /\ NoFetch
  /\ handlers = NoHandlers /\ earlier = NoCall
  /\ MonitorOff

NextLoop ==
  \/ \E id \in Requests : Receive(id)
  \/ \E id \in Requests : Dispatch(id)
  \/ \E sd \in Directions, bs \in 1..MaxBatch, mr \in {None} \cup 1..MaxRecordsArg,
        uc \in BOOLEAN : HandlerCall(sd, bs, mr, uc)
  \/ Probe
  \/ StreamStep
  \/ Merge
  \/ \E id \in Requests : Respond(id)

\* the server's event loop and the requests to /activity/all for one owner
SpecLoop == InitLoop /\ [][NextLoop]_vars

(* ======================================================================= *)
(* The properties                                                          *)
(* ======================================================================= *)
GetAllDone == pc = "done" /\ op = "getAll"
GetAllReturned == GetAllDone /\ ~raised
GetPageDone == pc = "done" /\ op = "getPage"

KeysOf(s) == {IdentityKey(s[i]) : i \in 1..Len(s)}
WindowRecords(s, c) == {s[i] : i \in {j \in 1..Len(s) : Normalize(s[j].timestamp) >= c}}
WindowKeys(s, c) == {IdentityKey(a) : a \in WindowRecords(s, c)}
NoRepeatedKey(s) ==
  \A i, j \in 1..Len(s) : i # j => IdentityKey(s[i]) # IdentityKey(s[j])

\* C1: the list get_all_user_activity returns holds no two records with the
\* same identity key (transactionHash, conditionId), whatever the cache held
\* and whatever pages the upstream served.
C1_NoDuplicateKeys == GetAllReturned => NoRepeatedKey(result)

\* C2: get_all_user_activity raises only when a fetch failed and the owner
\* had no cached data; a failed fetch in the STREAM loop with cached entries
\* present ends in a returned list.
C2_StreamFailureFallsBack ==
  (GetAllDone /\ raised) => (fetch_failed # "none" /\ cached_data = <<>>)

\* C3: with a non-empty cache and a first live page whose in-window identity
\* keys are all among the in-window cached keys, the call issues exactly one
\* fetch (offset 0), never enters STREAM and returns cached records only.
C3_ProbeShortCircuit ==
  (/\ GetAllDone
   /\ cached_data # <<>>
   /\ fetch_failed # "probe"
   /\ WindowKeys(first_batch, cutoff) \subseteq WindowKeys(cached_data, cutoff))
  => /\ Len(fetches) = 1
     /\ fetches[1].offset = 0
     /\ stop = "none"
     /\ ~raised
     /\ Range(result) \subseteq Range(cached_data)

C3_Witness ==
  /\ GetAllDone
  /\ cached_data # <<>>
  /\ fetch_failed = "none"
  /\ WindowKeys(first_batch, cutoff) # {}
  /\ WindowKeys(first_batch, cutoff) \subseteq WindowKeys(cached_data, cutoff)
  /\ Len(fetches) = 1
  /\ result # <<>>

\* the streamed record that stands for key k: the first one accumulated
FirstStreamed(k) ==
  all_activities[CHOOSE i \in 1..Len(all_activities) :
                   /\ IdentityKey(all_activities[i]) = k
                   /\ \A j \in 1..(i - 1) : IdentityKey(all_activities[j]) # k]

SharedKeys == KeysOf(all_activities) \cap KeysOf(cached_data)

\* C4 as stated: for a key both streamed and cached, the returned list holds
\* the streamed record and no cached record of that key.
C4_StreamedPayloadReturned ==
  (GetAllReturned /\ cached_data # <<>>)
  => \A k \in SharedKeys :
       /\ \E i \in 1..Len(result) : result[i] = FirstStreamed(k)
       /\ \A i \in 1..Len(result) :
            IdentityKey(result[i]) = k => result[i] = FirstStreamed(k)

\* C4 as amended: a returned record whose key was streamed is the streamed
\* record, never a cached one; the streamed record of every streamed key is
\* returned unless the max_records truncation filled the list without it.
C4_MergePrecedence ==
  (GetAllReturned /\ cached_data # <<>>)
  => \A k \in KeysOf(all_activities) :
       /\ \A i \in 1..Len(result) :
            IdentityKey(result[i]) = k => result[i] = FirstStreamed(k)
       /\ \/ \E i \in 1..Len(result) : result[i] = FirstStreamed(k)
          \/ args.max_records # None /\ Len(result) = args.max_records

C4_Witness ==
  /\ GetAllReturned
  /\ \E k \in SharedKeys :
       /\ \E i \in 1..Len(cached_data) :
            /\ IdentityKey(cached_data[i]) = k
            /\ cached_data[i] # FirstStreamed(k)
            /\ Normalize(cached_data[i].timestamp) >= cutoff
       /\ \E i \in 1..Len(result) : result[i] = FirstStreamed(k)
  /\ Len(result) >= 2

\* C5: with max_records given, the returned list has at most max_records
\* records, whichever way the stream ended and whatever the cache held.
C5_AtMostMaxRecords ==
  (GetAllReturned /\ args.max_records # None) => Len(result) <= args.max_records

\* C6: the returned list is ordered by the timestamp normalized to seconds,
\* in the direction asked for.
C6_OrderedByNormalizedTimestamp ==
  GetAllReturned =>
    \A i, j \in 1..Len(result) :
      i < j => IF args.sort_direction = "DESC"
               THEN Normalize(result[i].timestamp) >= Normalize(result[j].timestamp)
               ELSE Normalize(result[i].timestamp) <= Normalize(result[j].timestamp)

\* C7: every returned record has a normalized timestamp at or above the
\* retention cutoff computed at the call's entry, whether it came from the
\* PROBE page, a STREAM page or the cache.
C7_ResultInWindow ==
  GetAllReturned =>
    \A i \in 1..Len(result) : Normalize(result[i].timestamp) >= cutoff

C7_Witness ==
  /\ GetAllReturned
  /\ \E i \in 1..Len(cached_data) : Normalize(cached_data[i].timestamp) < cutoff
  /\ \E i \in 1..Len(first_batch) : Normalize(first_batch[i].timestamp) < cutoff
  /\ Len(fetches) >= 2
  /\ \E i \in 1..Len(result) : result[i] \in Range(all_activities)
  /\ \E i \in 1..Len(result) : result[i] \notin Range(all_activities)

\* the pages of the run, one after the other
RECURSIVE Concat(_)
Concat(ss) == IF ss = <<>> THEN <<>> ELSE Head(ss) \o Concat(Tail(ss))

Served == Concat(paging.pages)

StrictlyBefore(a, b, sort_direction) ==
  IF sort_direction = "DESC" THEN a.timestamp > b.timestamp
  ELSE a.timestamp < b.timestamp

NoRecordRepeated == \A i, j \in 1..Len(Served) : i # j => Served[i] # Served[j]

\* no record cached when the run began and ordered strictly before a served
\* record is missing from the pages served
NoRecordSkipped ==
  \A r \in paging.base :
    (\E i \in 1..Len(Served) : StrictlyBefore(r, Served[i], paging.sort_direction))
    => r \in Range(Served)

\* C8 as stated: the pages of successive use_cache calls at consecutive
\* offsets neither repeat nor skip a record, also when the upstream gains
\* records between the calls.
C8_PagesNeitherRepeatNorSkip ==
  paging.pages # <<>> => NoRecordRepeated /\ NoRecordSkipped

DistinctTimestamps(rows) ==
  \A r, q \in rows : r # q => r.timestamp # q.timestamp

\* C8 as amended: the pages neither repeat nor skip a record when no call
\* after the first one of the run changed the owner's cached rows and no two
\* cached rows have the same timestamp.
C8_StablePaging ==
  (paging.pages # <<>> /\ paging.stable /\ DistinctTimestamps(paging.base))
  => NoRecordRepeated /\ NoRecordSkipped

C8_Witness ==
  /\ Len(paging.pages) >= 2
  /\ paging.stable
  /\ DistinctTimestamps(paging.base)
  /\ paging.pages[2] # <<>>
  /\ Cardinality(paging.base) > Len(Served)

\* res is an answer to LIMIT limit OFFSET off over rows ordered by timestamp:
\* off rows (or all, if fewer) come before it, the rest after it
IsRangeOf(res, rows, limit, off, sort_direction) ==
  \E before \in SUBSET rows :
    /\ Cardinality(before) = Min(off, Cardinality(rows))
    /\ Range(res) \subseteq rows \ before
    /\ Len(res) = Min(limit, Cardinality(rows) - Cardinality(before))
    /\ Cardinality(Range(res)) = Len(res)
    /\ \A i, j \in 1..Len(res) :
         i < j => ~StrictlyBefore(res[j], res[i], sort_direction)
    /\ \A b \in before : \A r \in rows \ before :
         ~StrictlyBefore(r, b, sort_direction)
    /\ \A i \in 1..Len(res) : \A r \in rows \ (before \cup Range(res)) :
         ~StrictlyBefore(r, res[i], sort_direction)

\* C9: a use_cache call whose refresh fetch failed returns the cached records
\* of the requested range when there are any, leaving the cache as it was, and
\* raises exactly when the fetch failed and the range is empty in the cache.
C9_StaleButAvailable ==
  (GetPageDone /\ args.use_cache)
  => /\ raised <=> (fetch_failed = "refresh" /\ Cardinality(cache) <= args.offset)
     /\ (fetch_failed = "refresh" /\ ~raised)
        => /\ result # <<>>
           /\ IsRangeOf(result, cache, args.limit, args.offset, args.sort_direction)

C9_Witness ==
  /\ GetPageDone /\ args.use_cache /\ fetch_failed = "refresh"
  /\ ~raised /\ args.offset > 0 /\ result # <<>>
  /\ Cardinality(cache) > args.offset + Len(result)

C9_WitnessRaised ==
  /\ GetPageDone /\ args.use_cache /\ fetch_failed = "refresh"
  /\ raised /\ cache # {}

\* the record of the refresh batch that is left stored under a row key: the
\* last one written
LastWritten(batch, a) ==
  batch[CHOOSE i \in 1..Len(batch) :
          /\ RowKey(batch[i]) = RowKey(a)
          /\ \A j \in (i + 1)..Len(batch) : RowKey(batch[j]) # RowKey(a)]

\* C10: a use_cache call whose fetch succeeds issues one fetch, at offset 0
\* and of size max(limit + offset, refresh floor), writes every record of the
\* batch into the cache and returns the range (limit, offset) of the cache as
\* it is after that write.
C10_RefreshThenServeFromCache ==
  (GetPageDone /\ args.use_cache /\ fetch_failed = "none")
  => /\ fetches = <<[limit |-> Max(args.limit + args.offset, RefreshFloor),
                     offset |-> 0]>>
     /\ ~raised
     /\ \A i \in 1..Len(latest_data) : LastWritten(latest_data, latest_data[i]) \in cache
     /\ IsRangeOf(result, cache, args.limit, args.offset, args.sort_direction)

C10_Witness ==
  /\ GetPageDone /\ args.use_cache /\ fetch_failed = "none"
  /\ args.offset = 0 /\ args.limit < RefreshFloor
  /\ Len(latest_data) = RefreshFloor
  /\ Len(result) = args.limit
  /\ cache = Range(latest_data)

\* C11: a get_user_activity call with use_cache false asks the upstream for
\* exactly (limit, offset, sort_direction), returns the page as served, leaves
\* the cache as it was (the answer does not depend on it), and raises exactly
\* when the fetch failed.
C11_UncachedIsFetchPage ==
  [][(pc = "idle" /\ op' = "getPage" /\ ~args'.use_cache)
     => /\ cache' = cache
        /\ fetches' = <<[limit |-> args'.limit, offset |-> args'.offset]>>
        /\ raised' <=> (fetch_failed' # "none")
        /\ ~raised' => result' = fetch_user_activity_from_api(
                                    feed, args'.limit, args'.offset,
                                    args'.sort_direction)]_vars

C11_Witness ==
  /\ GetPageDone /\ ~args.use_cache /\ ~raised
  /\ result # <<>>
  /\ cache # {}
  /\ Range(result) \cap cache = {}

StoredOwners == {Lower(user) : user \in Users}

KeysOfOwner(rows, user_address) ==
  {IdentityKey(a) : a \in RowsOf(rows, user_address)}

\* C12: the table holds at most one row per (owner, transactionHash,
\* conditionId): a save of a record whose identity key is stored replaces the
\* row, also when the timestamps differ.
C12_OneRowPerIdentityKey ==
  \A r, q \in table :
    (r.user_address = q.user_address
     /\ IdentityKey(r.activity) = IdentityKey(q.activity)) => r = q

\* the mapping identity key -> payload stored for an owner
Content(rows, user) ==
  {<<IdentityKey(a), a>> : a \in RowsOf(rows, Lower(user))}

\* C13: saving the page that was saved just before, for the same owner,
\* leaves the content stored for every owner as the first save left it.
C13_SaveIdempotent ==
  [][(last'.op = "save" /\ last'.repeated)
     => \A user \in Users : Content(table', user) = Content(table, user)]_vars

C13_Witness ==
  /\ last.op = "save" /\ last.repeated
  /\ last.page # <<>>
  /\ Range(last.page) \subseteq RowsOf(table, Lower(last.user))
  /\ Cardinality(RowsOf(table, Lower(last.user))) >= 2

\* C14: an identity key once stored for an owner stays stored for that owner
\* through every later operation but a clear for that owner.
C14_KeyStaysUntilClear ==
  [][\A owner \in StoredOwners :
       \/ KeysOfOwner(table, owner) \subseteq KeysOfOwner(table', owner)
       \/ last'.op = "clear" /\ Lower(last'.user) = owner]_vars

\* the records of a page whose INSERT succeeds
Written(page) == SelectSeq(page, Persists)

\* C15: rows are written, read, counted and deleted under the lowercased
\* address: what a save under one spelling stored is returned and counted
\* under every spelling of the address, and a clear under one spelling
\* empties the answers under every spelling.
C15_OwnerCaseInsensitive ==
  \A user \in Users :
    Lower(user) = Lower(last.user)
    => /\ last.op = "save"
          => /\ \A sd \in Directions :
                  \A answer \in QueryRows(table, user, None, 0, sd) :
                    {LastWritten(Written(last.page), Written(last.page)[i]) :
                       i \in 1..Len(Written(last.page))} \subseteq Range(answer)
             /\ get_cache_stats(table, user).total_count
                  >= Cardinality({RowKey(a) : a \in Range(Written(last.page))})
       /\ last.op = "clear"
          => /\ QueryRows(table, user, None, 0, "DESC") = {<<>>}
             /\ get_cache_stats(table, user).total_count = 0
       /\ last.op = "query"
          => Range(last.answer) = RowsOf(table, Lower(user))

C15_Witness ==
  /\ last.op = "save"
  /\ last.user # Lower(last.user)
  /\ last.page # <<>>
  /\ Cardinality(RowsOf(table, Lower(last.user))) >= 2
  /\ \E r \in table : r.user_address # Lower(last.user)

\* C16: no row is stored under a millisecond-scale timestamp: every stored
\* timestamp is second-scale (at most the millisecond threshold).
C16_StoredTimestampsInSeconds ==
  \A r \in table : r.activity.timestamp <= MsThreshold

FetchDone == fetch_pc \in {"returned", "raised"}

\* what the loop did after the failed attempt number n (from 1) of a kind in
\* retryable: it waited retry_delay * n and went on to a further attempt
WaitedAndWentOn(n) ==
  /\ Len(waits) >= n /\ waits[n] = retry_delay * n
  /\ Len(outcomes) > n \/ (fetch_pc = "trying" /\ attempt = n)

\* the attempts, their waits and the end of a call, for the failures listed
\* in retryable
BoundedRetries(retryable) ==
  /\ Len(outcomes) <= max_retries
  /\ \A n \in 1..Len(outcomes) :
       (outcomes[n] \in retryable /\ n < max_retries) => WaitedAndWentOn(n)
  /\ (Len(outcomes) = max_retries /\ outcomes[max_retries] # "ok")
     => fetch_pc = "raised"
  /\ fetch_pc = "returned" <=> (outcomes # <<>> /\ outcomes[Len(outcomes)] = "ok")
  /\ fetch_pc = "trying" => attempt < max_retries

\* C19 as stated: at most 3 attempts; a connection failure, a timeout or a
\* 429/5xx answer on attempt n < 3 is followed by a wait of base * n and a
\* further attempt; the 3rd failed attempt raises; a call ends with a page or
\* with an error.
C19_RetriesIncludingStatus == BoundedRetries({"connection", "timeout", "status"})

\* C19 as amended: the same for a connection failure and a timeout only; a
\* 429/5xx answer that comes out of an attempt raises at once.
C19_RetriesOfConnectionAndTimeout ==
  /\ BoundedRetries({"connection", "timeout"})
  /\ \A n \in 1..Len(outcomes) :
       outcomes[n] = "status"
       => (n = Len(outcomes) /\ fetch_pc = "raised" /\ Len(waits) = n - 1)

C19_Witness ==
  /\ fetch_pc = "raised"
  /\ outcomes = <<"connection", "timeout", "timeout">>
  /\ waits = <<retry_delay, 2 * retry_delay>>

\* C20: an attempt that fails with a client error is the last one of the
\* call: the call raises with no wait and no attempt after it, after one
\* attempt when it is the first.
C20_ClientErrorNotRetried ==
  \A n \in 1..Len(outcomes) :
    outcomes[n] = "client"
    => /\ n = Len(outcomes)
       /\ fetch_pc = "raised"
       /\ Len(waits) = n - 1

C20_Witness ==
  /\ fetch_pc = "raised"
  /\ outcomes = <<"client">>
  /\ waits = <<>>

\* C17: at every moment at most one get_all_user_activity call is in flight:
\* while the coroutine of one request is running, every other request is
\* still waiting or has been answered, so that the fetches and the upserts
\* in progress are those of one request.
C17_OneGetAllInFlight ==
  /\ Cardinality(Running(handlers)) <= 1
  /\ pc # "idle" => Cardinality(Running(handlers)) = 1

\* a second request has arrived while the first is in its STREAM loop, after
\* an upsert
C17_Witness ==
  /\ \E id \in Requests : handlers[id] = "running"
  /\ \E id \in Requests : handlers[id] = "received"
  /\ pc = "stream" /\ fetches # <<>> /\ cache # {}

\* C21: every request sent to the upstream service carries a limit between 1
\* and the upstream maximum, whatever the caller passed.
C21_FetchLimitCapped ==
  \A i \in 1..Len(fetches) : fetches[i].limit \in 1..ApiMaxLimit

\* C22: in a get_all_user_activity call with use_cache false the cached set
\* read at entry is empty: no PROBE is made, and the result holds streamed
\* records only, whatever the cache holds.
C22_UncachedSyncIgnoresCache ==
  (op = "getAll" /\ ~args.use_cache)
  => /\ cached_data = <<>>
     /\ pc # "probe"
     /\ GetAllReturned => Range(result) \subseteq Range(all_activities)

\* C23: a save skips the records that fail to persist and writes every other
\* record of the batch, and it returns the number of records written, for
\* every batch, the empty batch included.
C23_SkipsAndCounts ==
  last.op = "save"
  => /\ {LastWritten(Written(last.page), Written(last.page)[i]) :
          i \in 1..Len(Written(last.page))}
          \subseteq RowsOf(table, Lower(last.user))
     /\ Malformed \notin RowsOf(table, Lower(last.user))
     /\ last.saved_count = <<Len(Written(last.page))>>

\* C24: an operation for one owner leaves the rows of every other owner as
\* they were and answers with rows of its own owner only; a clear leaves its
\* owner without rows.
C24_OwnersIsolated ==
  [][
      /\ {r \in table' : r.user_address # Lower(last'.user)}
           = {r \in table : r.user_address # Lower(last'.user)}
      /\ last'.op = "query"
           => Range(last'.answer) \subseteq RowsOf(table, Lower(last'.user))
      /\ last'.op = "clear" => RowsOf(table', Lower(last'.user)) = {}
    ]_vars

\* a clear for one owner has been made while another owner holds rows
C24_Witness ==
  /\ last.op = "clear"
  /\ RowsOf(table, Lower(last.user)) = {}
  /\ \E owner \in StoredOwners : owner # Lower(last.user) /\ RowsOf(table, owner) # {}

\* C25: get_cached_activities(user, limit, offset, sort_direction) answers
\* with the rows of the owner at positions offset .. offset + limit - 1 of the
\* owner's rows in timestamp order; with no limit (get_all_cached_activities
\* at offset 0) it answers with all of them from position offset on.
C25_QueryRange ==
  last.op = "query"
  => LET rows == RowsOf(table, Lower(last.user))
     IN IsRangeOf(last.answer, rows,
                  IF last.limit = None THEN Cardinality(rows) ELSE last.limit,
                  last.offset, last.sort_direction)

\* a page of one row at offset 1 of an owner with more rows, beside another
\* owner's rows
C25_Witness ==
  /\ last.op = "query" /\ last.limit = 1 /\ last.offset = 1
  /\ Len(last.answer) = 1
  /\ Cardinality(RowsOf(table, Lower(last.user))) >= 2
  /\ \E r \in table : r.user_address # Lower(last.user)

RefreshCall == GetPageDone /\ args.use_cache

NextPageFetched ==
  fetch_user_activity_from_api(feed, args.batch_size, offset, args.sort_direction)

\* a STREAM iteration whose fetch succeeds
StreamFetched == pc = "stream" /\ fetches' # fetches /\ ~raised'

\* C27: a STREAM page with records in the window, fetched when a minimum
\* timestamp is retained from the page before: if its first timestamp is
\* strictly greater than that minimum the loop ends at once, nothing is
\* appended to the accumulator or written to the cache and no further page is
\* fetched; otherwise the page is processed: records of it are appended, and
\* with use_cache written to the cache.
C27_InversionAbort ==
  [][(/\ StreamFetched
      /\ last_batch_min_timestamp # NoTimestamp
      /\ NextPageFetched # <<>>
      /\ InWindow(NextPageFetched[1], cutoff))
     => IF Normalize(NextPageFetched[1].timestamp) > last_batch_min_timestamp
        THEN /\ all_activities' = all_activities /\ cache' = cache
             /\ pc' = "merge" /\ stop' = "inversion"
        ELSE /\ stop' # "inversion"
             /\ Len(all_activities') > Len(all_activities)
             /\ all_activities'[Len(all_activities) + 1] = NextPageFetched[1]
             /\ args.use_cache
                  => \E r \in cache' : RowKey(r) = RowKey(NextPageFetched[1])
    ]_vars

\* the loop ended on an inversion at its second page or later
C27_Witness ==
  /\ op = "getAll" /\ pc = "merge" /\ stop = "inversion"
  /\ Len(fetches) >= 2
  /\ all_activities # <<>>
  /\ last_batch_min_timestamp # NoTimestamp

\* the longest prefix of a page whose records are all in the window
WindowPrefix(page, three_months_ago_timestamp) ==
  SubSeq(page, 1,
         CHOOSE k \in 0..Len(page) :
           /\ \A i \in 1..k : InWindow(page[i], three_months_ago_timestamp)
           /\ k = Len(page) \/ ~InWindow(page[k + 1], three_months_ago_timestamp))

\* the page's records that are kept, first occurrence of each key
KeptOfPage == UniqueBy(WindowPrefix(NextPageFetched, cutoff), {})

LosesToWindow == Len(WindowPrefix(NextPageFetched, cutoff)) < Len(NextPageFetched)

\* the kept records of a page that loses a record to the window are appended
\* and the loop ends
AppendsKeptAndEnds ==
  /\ all_activities' = all_activities \o KeptOfPage
  /\ pc' = "merge"

\* a page that loses nothing is appended whole, up to max_records, or not at all
AppendsWhole ==
  all_activities' \in
    {all_activities, all_activities \o KeptOfPage,
     Truncate(all_activities \o KeptOfPage, args.max_records)}

\* C28 as stated: of every STREAM page the records kept are those of the
\* longest prefix in the window, and a page that loses a record to the window
\* is the last: its kept records are appended and no later page is fetched.
C28_WindowTruncation ==
  [][(StreamFetched /\ NextPageFetched # <<>>)
     => IF LosesToWindow THEN AppendsKeptAndEnds ELSE AppendsWhole]_vars

InvertedPage ==
  /\ last_batch_min_timestamp # NoTimestamp
  /\ KeptOfPage # <<>>
  /\ Normalize(NextPageFetched[1].timestamp) > last_batch_min_timestamp

\* C28: the same, but for a page that loses a record to the window and whose
\* first timestamp is greater than the minimum retained from the page before:
\* the loop ends on it and none of its records is appended.
C28_WindowTruncationUnlessInverted ==
  [][(StreamFetched /\ NextPageFetched # <<>>)
     => IF LosesToWindow
        THEN IF InvertedPage
             THEN all_activities' = all_activities /\ pc' = "merge"
             ELSE AppendsKeptAndEnds
        ELSE AppendsWhole]_vars

\* the loop ended on a page that lost to the window a record followed by a
\* record in the window
C28_Witness ==
  /\ op = "getAll" /\ pc = "merge" /\ stop = "final"
  /\ all_activities # <<>>
  /\ \E i, j \in 1..Len(NextPageFetched) :
       /\ i < j
       /\ ~InWindow(NextPageFetched[i], cutoff)
       /\ InWindow(NextPageFetched[j], cutoff)
       /\ NextPageFetched[j] \notin Range(all_activities)

\* the records a step adds to the streamed accumulator
AppendedPage ==
  SubSeq(all_activities', Len(all_activities) + 1, Len(all_activities'))

DistinctKeys(s) ==
  \A i, j \in 1..Len(s) : IdentityKey(s[i]) = IdentityKey(s[j]) => i = j

\* the page a PROBE or STREAM step works on, after its window filter
FilteredPage ==
  IF pc = "probe" THEN FilterFirstBatch(first_batch', cutoff)
  ELSE FilterBatch(NextPageFetched, cutoff)

\* C29: every page appended to the streamed accumulator, by a STREAM iteration
\* or by the PROBE that carries its page forward, has pairwise distinct
\* identity keys, and of the records of the filtered page that share a key
\* the first is the one appended.
C29_AppendedPagesDistinct ==
  [][(pc \in {"probe", "stream"} /\ Len(all_activities') > Len(all_activities))
     => /\ DistinctKeys(AppendedPage)
        /\ \E n \in 0..Len(FilteredPage) :
             AppendedPage = SubSeq(UniqueBy(FilteredPage, {}), 1,
                                   Min(n, Len(UniqueBy(FilteredPage, {}))))]_vars

\* a row of the owner's cache holds the record's row key
HasRow(rows, a) == \E r \in rows : RowKey(r) = RowKey(a)

\* C30: whenever get_all_user_activity is about to fetch the next STREAM page,
\* and when it has ended in an error, every record of the streamed accumulator,
\* the records carried from the PROBE page included, has a row in the cache.
C30_AccumulatedIsCached ==
  (op = "getAll" /\ (pc = "stream" \/ stop = "error"))
  => \A i \in 1..Len(all_activities) : HasRow(cache, all_activities[i])

\* C31: a get_all_user_activity call ends, whatever the upstream serves, a full
\* page of records in the window at every offset included, and no page is
\* fetched at an offset above the ceiling.
C31_EndsBelowCeiling ==
  /\ [](\A i \in 1..Len(fetches) : fetches[i].offset <= OffsetCeiling)
  /\ (op = "getAll" /\ pc # "done") ~> (pc = "done")

C31_Witness ==
  /\ op = "getAll" /\ pc = "done" /\ stop = "ceiling"
  /\ \E i \in 1..Len(fetches) : fetches[i].offset = OffsetCeiling

\* the order of the phases of one call
PhaseRank(p) ==
  CASE p = "idle" -> 0 [] p = "probe" -> 1 [] p = "stream" -> 2
    [] p = "merge" -> 3 [] p = "done" -> 4

\* C32: in a get_all_user_activity call the phases follow each other in the
\* order PROBE, STREAM, MERGE, DONE; the PROBE is entered only with a cached
\* set that is not empty and before any fetch; the n-th fetch of the call is
\* for batch_size records at offset (n - 1) * batch_size, so that STREAM
\* starts at batch_size after a PROBE and at 0 without one and no offset is
\* fetched twice; and no fetch is made once MERGE has begun.
C32_PhasesAndOffsets ==
  [][(op = "getAll" /\ op' = "getAll")
     => /\ PhaseRank(pc) <= PhaseRank(pc')
        /\ pc = "probe" => (cached_data # <<>> /\ fetches = <<>> /\ pc' # "probe")
        /\ \A n \in 1..Len(fetches') :
             fetches'[n] = [limit |-> args.batch_size,
                            offset |-> (n - 1) * args.batch_size]
        /\ fetches' # fetches => pc \in {"probe", "stream"}
        /\ pc \in {"merge", "done"} => fetches' = fetches]_vars

C32_Witness ==
  /\ op = "getAll" /\ pc = "merge" /\ args.batch_size > 1
  /\ cached_data # <<>> /\ first_batch # <<>>
  /\ Len(fetches) >= 3

\* a call whose PROBE fetch failed, at its end
ProbeFailed == GetAllDone /\ fetch_failed = "probe"

OrderedByNormalized(s, sort_direction) ==
  \A i, j \in 1..Len(s) :
    i < j => IF sort_direction = "DESC"
             THEN Normalize(s[i].timestamp) >= Normalize(s[j].timestamp)
             ELSE Normalize(s[i].timestamp) <= Normalize(s[j].timestamp)

\* res holds, once each, the records of the set recs, or max_records of them
HoldsUpTo(res, recs, max_records) ==
  /\ Range(res) \subseteq recs
  /\ \A i, j \in 1..Len(res) : res[i] = res[j] => i = j
  /\ Len(res) = IF max_records # None THEN Min(max_records, Cardinality(recs))
                ELSE Cardinality(recs)

\* C33: when the PROBE fetch fails the call does not raise and fetches nothing
\* more; it returns the cached entries that lie in the retention window, in
\* the order asked for and cut to max_records, and the cache is as it was at
\* the call's entry.
C33_ProbeFailureServesCache ==
  ProbeFailed
  => /\ ~raised
     /\ Len(fetches) = 1
     /\ cache = Range(cached_data)
     /\ OrderedByNormalized(result, args.sort_direction)
     /\ \E c \in {cutoff, cutoff + 1} :
          HoldsUpTo(result, WindowRecords(cached_data, c), args.max_records)

\* the upstream serves its history from the newest second to the oldest, all
\* of it in the window, at the call's entry and a second later
NewestFirstInWindow(history, three_months_ago_timestamp) ==
  /\ OrderedByNormalized(history, "DESC")
  /\ \A i \in 1..Len(history) : InWindow(history[i], three_months_ago_timestamp + 1)

\* C34: after any calls made with use_cache against a history that does not
\* change, a newest-first get_all_user_activity call whose fetches all succeed
\* and whose max_records is not reached returns every record of the upstream
\* that lies in the window, by identity key, also when its PROBE found the
\* cache current.
C34_PollingReturnsAll ==
  (/\ GetAllReturned /\ fetch_failed = "none"
   /\ args.sort_direction = "DESC"
   /\ NewestFirstInWindow(feed, cutoff)
   /\ args.max_records = None)
  => WindowKeys(feed, cutoff) \subseteq KeysOf(result)

\* the call that has returned repeats the call before it, which started from
\* an empty cache; no fetch of either failed
RepeatsFreshCall ==
  /\ GetAllReturned /\ fetch_failed = "none"
  /\ earlier.op = "getAll" /\ earlier.fresh /\ ~earlier.failed
  /\ earlier.args = args

\* every record of the history is in the window, at the call's entry and a
\* second later
AllInWindow(history, three_months_ago_timestamp) ==
  \A i \in 1..Len(history) : InWindow(history[i], three_months_ago_timestamp + 1)

\* C35: of two consecutive get_all_user_activity calls with use_cache and the
\* same arguments against an upstream that has not changed and whose records
\* are all in the window, the first made with an empty cache, the second
\* returns the list the first returned: the same records in the same order.
C35_RepeatReturnsSame ==
  (RepeatsFreshCall /\ AllInWindow(feed, cutoff)) => result = earlier.result

\* C36: no step of a get_all_user_activity call made with use_cache false
\* changes the cache, whatever the cache held and whatever the upstream serves.
C36_UncachedSyncKeepsCache ==
  [][(op = "getAll" /\ ~args.use_cache) => cache' = cache]_vars

\* a call that found no cached data has returned, no fetch of it failed, the
\* upstream serves its history in the order of time and max_records does not
\* cut the answer
FreshSyncOfOrderedHistory ==
  /\ GetAllReturned /\ fetch_failed = "none" /\ cached_data = <<>>
  /\ OrderedByNormalized(feed, "DESC")
  /\ \/ args.max_records = None
     \/ Cardinality(WindowRecords(feed, cutoff)) < args.max_records

\* C37: with an empty cache and an upstream that serves a stable history in
\* the order asked for, get_all_user_activity returns exactly the records of
\* the history that lie in the window, newest first and oldest first alike,
\* by identity key, also when the history holds records older than the cutoff.
C37_FreshSyncReturnsWindow ==
  FreshSyncOfOrderedHistory => KeysOf(result) = WindowKeys(feed, cutoff)

\* the first STREAM iteration after a PROBE that carried its page: its page
\* has records in the window and the first of them is newer than the oldest
\* record carried
InvertedAfterProbe ==
  /\ StreamFetched /\ op = "getAll"
  /\ Len(fetches) = 1 /\ first_batch # <<>> /\ all_activities # <<>>
  /\ KeptOfPage # <<>>
  /\ Normalize(NextPageFetched[1].timestamp) > BatchMinTimestamp(all_activities)

\* C38: after a PROBE page was carried forward, a page fetched at offset
\* batch_size whose first timestamp is greater than the least timestamp of the
\* carried page is not appended, and the loop ends on it.
C38_InversionAfterProbe ==
  [][InvertedAfterProbe => (all_activities' = all_activities /\ pc' = "merge")]_vars

\* the number of restarts recorded in the hour before time t
RestartsInHourBefore(times, t) ==
  Cardinality({i \in 1..Len(times) : times[i] < t /\ t - times[i] < Hour})

\* C39: every restart of a service that monitor_services records was made
\* with fewer than max_restarts_per_hour restarts of that service recorded in
\* the hour before it, and a pass starts a service only with such a record:
\* no hour holds more than max_restarts_per_hour restarts of one service.
C39_RestartsThrottled ==
  \A s \in Services :
    /\ \A i \in 1..Len(last_restart[s]) :
         RestartsInHourBefore(last_restart[s], last_restart[s][i])
           < max_restarts_per_hour
    /\ s \in pass.started =>
         /\ last_restart[s] # <<>>
         /\ last_restart[s][Len(last_restart[s])] = pass.at

C39_Witness ==
  /\ "backend" \in pass.stopped /\ "backend" \notin pass.started
  /\ RestartsInHourBefore(last_restart["backend"], pass.at) = max_restarts_per_hour
  /\ clock > Hour /\ Len(last_restart["backend"]) > max_restarts_per_hour

\* C40: a service that is stopped at a monitoring pass and has fewer than
\* max_restarts_per_hour restarts in the hour before the pass is restarted
\* by that pass, whatever the state of the other service.
C40_StoppedIsRestarted ==
  \A s \in pass.stopped :
    RestartsInHourBefore(last_restart[s], pass.at) < max_restarts_per_hour
      => s \in pass.started

=============================================================================
